---- MODULE Spec2Model ----
(***************************************************************************)
(* The stateful map adapters of rayon, src/iter/map_with.rs: MapWith and   *)
(* MapInit with their producers, consumers, folder and iterator, driven by *)
(* a fork/join bridge over a split tree.                                   *)
(*                                                                         *)
(* A branch of the split tree is a node of a binary tree in heap order:    *)
(* the root is 1, the children of n are 2n (left) and 2n+1 (right).  The   *)
(* per-branch state values live in `store`, a heap of state instances; an  *)
(* adapter struct holds the identity of the instance it owns, so that      *)
(* sharing an instance between two branches is something the model can     *)
(* express and a check can refute.                                         *)
(***************************************************************************)
EXTENDS Integers, Sequences, FiniteSets, TLC

VARIABLES input,      \* the items of the upstream (base) iterator
          adapter,    \* "MapWith" or "MapInit"
          limit,      \* the downstream folder is full() after this many items
          path,       \* "new", "drive", "drive_unindexed" or "with_producer"
          node,       \* the branches of the split tree, by heap index
          store,      \* the state instances, by identity
          initCalls,  \* invocations of the MapInit initializer
          cloneCalls, \* invocations of Clone on a MapWith state
          splits      \* the splits the scheduler may still make

vars == <<input, adapter, limit, path, node, store, initCalls, cloneCalls, splits>>

\* ------------------------------------------------------------------ bounds
\* MaxLen:        the longest bounded input
\* MaxSplits:     the splits the scheduler makes in a drive of a bounded input
\* MaxLimit:      the largest number of items after which a folder is full()
\* ExampleSplits: the splits the scheduler makes in a drive of the example
\* PanicSplits:   the splits the scheduler makes in a drive with failing branches
\* IterSplits:    the splits a callback makes of the producer it was handed
MaxLen == 4
MaxSplits == 2
MaxLimit == 2
ExampleSplits == 1
PanicSplits == 1
IterSplits == 1

\* ---------------------------------------------------------- the environment
\* The state every branch starts from and the mapping function, as in the
\* running-sum example: state initially 0; map_op(state, x) = { *state += x; *state }.
InitVal == 0
NoLimit == -1

\* The hints of a producer that does not set its own, and the hints of the
\* base producers of the drives in which the hints are looked at.
DefaultMinLen == 1
DefaultMaxLen == 2147483647
BaseHints == {[min_len |-> DefaultMinLen, max_len |-> DefaultMaxLen],
              [min_len |-> 2, max_len |-> 3]}
ExampleInput == <<1, 2, 3, 4, 5>>

map_op(item, x) == [item |-> item + x, mapped |-> item + x]

init == InitVal

\* The bounded inputs continue the example's pattern: the i-th item is i.
Inputs == {[i \in 1..k |-> i] : k \in 0..MaxLen}
Limits == (0..MaxLimit) \cup {NoLimit}

\* ------------------------------------------------- the downstream consumer
\* A downstream consumer is known by its place in its own split tree; its
\* folder collects the items it is given and is full() after `limit` items.
\* complete() yields the folder's contribution tagged with the consumer it
\* came from, and the reducer puts the left result before the right one.
Down_split_at(base, index) == [left |-> 2 * base, right |-> 2 * base + 1, reducer |-> base]
Down_split_off_left(base) == 2 * base
Down_after_split_off_left(base) == 2 * base + 1
Down_to_reducer(base) == base
Down_full(out) == limit # NoLimit /\ Len(out) >= limit
Down_consume(out, x) == Append(out, x)
Down_complete(base, out) == <<[base |-> base, out |-> out]>>
Down_reduce(left, right) == left \o right

\* --------------------------------------------------------- the base producer
\* The base producer is a slice [lo, hi) of the input with its own split
\* hints, which both halves of a split keep.  Its iterator is double-ended
\* and knows how many items it has left.
Base_len(self) == self.hi - self.lo
Base_min_len(self) == self.min_len
Base_max_len(self) == self.max_len
Base_split_at(self, index) ==
    [left |-> [lo |-> self.lo, hi |-> self.lo + index,
               min_len |-> self.min_len, max_len |-> self.max_len],
     right |-> [lo |-> self.lo + index, hi |-> self.hi,
                min_len |-> self.min_len, max_len |-> self.max_len]]
Base_next(self) == input[self.lo + self.pos + 1]
Base_next_back(self) == input[self.hi - self.back]
Base_size_hint(self) == self.hi - self.lo - self.pos - self.back
Base_exhausted(self) == self.pos + self.back >= self.hi - self.lo

\* ----------------------------------------------------------- state instances
\* A new instance is allocated at the address the caller's branch gives it:
\* the heap index of the branch that will own it.
Clone(st, id, at) == [store |-> (at :> st[id]) @@ st, id |-> at]
Fresh(st, v, at) == [store |-> (at :> v) @@ st, id |-> at]

\* ------------------------------------------------------------------- nodes
\* st:      "ready" (an unsplit producer/consumer pair), "split", "leaf", "done",
\*          "panicked" (the branch unwound)
\* lo, hi:  the slice of the base producer of this branch
\* base:    the downstream consumer the branch feeds
\* out:     the items the downstream folder of this branch holds
\* item:    the identity of the state instance the adapter struct holds, 0 if none
\* pos:     items pulled from the front of the base iterator
\* back:    items pulled from the back of the base iterator
\* last:    what the last call of the leaf iterator returned: "some" or "end"
\* seen:    the last answer to a size_hint, min_len or max_len query
\* min_len, max_len: the split hints of the base producer
\* stopped: the fold loop saw full() and broke
\* calls:   invocations of map_op in this branch
\* inits:   invocations of the initializer in this branch
\* mode:    how the leaf was converted: "into_folder", "fold_with", "into_iter"
\* seed:    the value of the branch's state when the leaf was converted
\* index:   the index the branch was split at
\* reducer: the reducer a split returned
\* res:     the result the branch returned
NoNode == [st |-> "ready", lo |-> 0, hi |-> 0, base |-> 1, out |-> <<>>, item |-> 0,
           pos |-> 0, stopped |-> FALSE, calls |-> 0, inits |-> 0, mode |-> "none",
           seed |-> 0, index |-> 0, reducer |-> 0, res |-> <<>>,
           back |-> 0, last |-> "none", seen |-> <<>>,
           min_len |-> DefaultMinLen, max_len |-> DefaultMaxLen]

Nodes == DOMAIN node

\* ------------------------------------------------------ MapWith: consumer side
MapWithConsumer_new(base, item) == [base |-> base, item |-> item]

\* A split that hands the left side the very instance the right side keeps.
MapWithConsumer_split_at_shared(self, index, st, at) ==
    LET s == Down_split_at(self.base, index)
    IN  [left |-> MapWithConsumer_new(s.left, self.item),
         right |-> MapWithConsumer_new(s.right, self.item),
         reducer |-> s.reducer, store |-> st, clones |-> 0, inits |-> 0]

MapWithConsumer_split_at(self, index, st, at) ==
    LET s == Down_split_at(self.base, index)
        c == Clone(st, self.item, at)
    IN  [left |-> MapWithConsumer_new(s.left, c.id),
         right |-> MapWithConsumer_new(s.right, self.item),
         reducer |-> s.reducer, store |-> c.store, clones |-> 1, inits |-> 0]

MapWithConsumer_into_folder(self, st, at) ==
    [folder |-> [base |-> self.base, out |-> <<>>, item |-> self.item],
     store |-> st, clones |-> 0, inits |-> 0]

MapWithConsumer_full(self) == Down_full(self.out)

\* A split_off_left that clones the state for both sides.
MapWithConsumer_split_off_left_twice(self, st, at) ==
    LET c == Clone(st, self.item, at)
        d == Clone(c.store, self.item, at + 1)
    IN  [left |-> MapWithConsumer_new(Down_split_off_left(self.base), c.id),
         right |-> MapWithConsumer_new(Down_after_split_off_left(self.base), d.id),
         store |-> d.store, clones |-> 2, inits |-> 0]

MapWithConsumer_split_off_left(self, st, at) ==
    LET c == Clone(st, self.item, at)
    IN  [left |-> MapWithConsumer_new(Down_split_off_left(self.base), c.id),
         right |-> MapWithConsumer_new(Down_after_split_off_left(self.base), self.item),
         store |-> c.store, clones |-> 1, inits |-> 0]

MapWithConsumer_to_reducer(self) == Down_to_reducer(self.base)

\* ----------------------------------------------------------- MapWithFolder
\* A consume that maps against a copy of the state and drops the mutation.
MapWithFolder_consume_stale(self, x, st) ==
    LET r == map_op(st[self.item], x)
    IN  [folder |-> [self EXCEPT !.out = Down_consume(@, r.mapped), !.calls = @ + 1],
         store |-> st]

\* One item through the folder: map_op on the folder's own state, then the
\* downstream folder's consume.
MapWithFolder_consume(self, x, st) ==
    LET r == map_op(st[self.item], x)
    IN  [folder |-> [self EXCEPT !.out = Down_consume(@, r.mapped), !.calls = @ + 1],
         store |-> [st EXCEPT ![self.item] = r.item]]

\* A consume_iter whose closure maps against a copy of the state.
MapWithFolder_consume_iter_stale(self, x, st) ==
    LET r == map_op(st[self.item], x)
    IN  [folder |-> [self EXCEPT !.out = Down_consume(@, r.mapped), !.calls = @ + 1],
         store |-> st]

\* A consume_iter whose closure runs map_op twice for every item pulled.
MapWithFolder_consume_iter_twice(self, x, st) ==
    LET q == map_op(st[self.item], x)
        r == map_op(q.item, x)
    IN  [folder |-> [self EXCEPT !.out = Down_consume(@, r.mapped), !.calls = @ + 2],
         store |-> [st EXCEPT ![self.item] = r.item]]

\* consume_iter hands the downstream folder a lazily mapped iterator; each
\* item the downstream pulls runs map_op once.  This is one pull.
MapWithFolder_consume_iter(self, x, st) ==
    LET r == map_op(st[self.item], x)
    IN  [folder |-> [self EXCEPT !.out = Down_consume(@, r.mapped), !.calls = @ + 1],
         store |-> [st EXCEPT ![self.item] = r.item]]

\* A complete that returns the result of a new, empty downstream folder.
MapWithFolder_complete_empty(self) == Down_complete(self.base, <<>>)

MapWithFolder_complete(self) == Down_complete(self.base, self.out)

\* A folder that never reports the downstream's saturation.
MapWithFolder_full_never(self) == FALSE

MapWithFolder_full(self) == Down_full(self.out)

\* ----------------------------------------------------- MapWith: producer side
\* A split that wraps the base's right half as its left and its left as its right.
MapWithProducer_split_at_swapped(self, index, st, at) ==
    LET b == Base_split_at(self, index)
        c == Clone(st, self.item, at)
    IN  [left |-> [item |-> c.id] @@ b.right,
         right |-> [item |-> self.item] @@ b.left,
         store |-> c.store, clones |-> 1, inits |-> 0]

\* A split whose right side keeps the whole base instead of its right half.
MapWithProducer_split_at_overlap(self, index, st, at) ==
    LET b == Base_split_at(self, index)
        c == Clone(st, self.item, at)
    IN  [left |-> [item |-> c.id] @@ b.left,
         right |-> [item |-> self.item] @@ [b.right EXCEPT !.lo = self.lo],
         store |-> c.store, clones |-> 1, inits |-> 0]

\* A split that leaves both sides holding the instance the producer held.
MapWithProducer_split_at_shared(self, index, st, at) ==
    LET b == Base_split_at(self, index)
    IN  [left |-> [item |-> self.item] @@ b.left,
         right |-> [item |-> self.item] @@ b.right,
         store |-> st, clones |-> 0, inits |-> 0]

MapWithProducer_split_at(self, index, st, at) ==
    LET b == Base_split_at(self, index)
        c == Clone(st, self.item, at)
    IN  [left |-> [item |-> c.id] @@ b.left,
         right |-> [item |-> self.item] @@ b.right,
         store |-> c.store, clones |-> 1, inits |-> 0]

MapWithProducer_into_iter(self, st, at) ==
    [iter |-> [item |-> self.item], store |-> st, clones |-> 0, inits |-> 0]

MapWithProducer_fold_with(self, st, at) ==
    [folder |-> [item |-> self.item], store |-> st, clones |-> 0, inits |-> 0]

\* next(): the base iterator's next item, if any, through map_op on the
\* iterator's own state.
MapWithIter_next(self, st) ==
    IF Base_exhausted(self)
    THEN [some |-> FALSE, mapped |-> 0, iter |-> self, store |-> st]
    ELSE LET r == map_op(st[self.item], Base_next(self))
         IN  [some |-> TRUE, mapped |-> r.mapped,
              iter |-> [self EXCEPT !.pos = @ + 1, !.calls = @ + 1],
              store |-> [st EXCEPT ![self.item] = r.item]]

\* A next_back that takes the item at the front of the base.
MapWithIter_next_back_front(self, st) ==
    IF Base_exhausted(self)
    THEN [some |-> FALSE, mapped |-> 0, iter |-> self, store |-> st]
    ELSE LET r == map_op(st[self.item], Base_next(self))
         IN  [some |-> TRUE, mapped |-> r.mapped,
              iter |-> [self EXCEPT !.back = @ + 1, !.calls = @ + 1],
              store |-> [st EXCEPT ![self.item] = r.item]]

\* next_back(): the base iterator's last item, if any, through map_op on the
\* iterator's own state.
MapWithIter_next_back(self, st) ==
    IF Base_exhausted(self)
    THEN [some |-> FALSE, mapped |-> 0, iter |-> self, store |-> st]
    ELSE LET r == map_op(st[self.item], Base_next_back(self))
         IN  [some |-> TRUE, mapped |-> r.mapped,
              iter |-> [self EXCEPT !.back = @ + 1, !.calls = @ + 1],
              store |-> [st EXCEPT ![self.item] = r.item]]

MapWithIter_size_hint(self) == Base_size_hint(self)

\* A min_len that answers with the default instead of asking the base.
MapWithProducer_min_len_default(self) == DefaultMinLen

MapWithProducer_min_len(self) == Base_min_len(self)

MapWithProducer_max_len(self) == Base_max_len(self)

\* ------------------------------------------------------ MapInit: consumer side
MapInitConsumer_new(base) == [base |-> base, item |-> 0]

\* A split that wraps the base's right consumer as its left and its left as its right.
MapInitConsumer_split_at_swapped(self, index, st, at) ==
    LET s == Down_split_at(self.base, index)
    IN  [left |-> MapInitConsumer_new(s.right),
         right |-> MapInitConsumer_new(s.left),
         reducer |-> s.reducer, store |-> st, clones |-> 0, inits |-> 0]

\* A split that runs the initializer for the left side at split time.
MapInitConsumer_split_at_eager(self, index, st, at) ==
    LET s == Down_split_at(self.base, index)
        f == Fresh(st, init, at)
    IN  [left |-> [base |-> s.left, item |-> f.id],
         right |-> MapInitConsumer_new(s.right),
         reducer |-> s.reducer, store |-> f.store, clones |-> 0, inits |-> 1]

MapInitConsumer_split_at(self, index, st, at) ==
    LET s == Down_split_at(self.base, index)
    IN  [left |-> MapInitConsumer_new(s.left),
         right |-> MapInitConsumer_new(s.right),
         reducer |-> s.reducer, store |-> st, clones |-> 0, inits |-> 0]

\* An into_folder that runs the initializer twice and keeps the second state.
MapInitConsumer_into_folder_twice(self, st, at) ==
    LET f == Fresh(Fresh(st, init, at).store, init, at)
    IN  [folder |-> [base |-> self.base, out |-> <<>>, item |-> f.id],
         store |-> f.store, clones |-> 0, inits |-> 2]

MapInitConsumer_into_folder(self, st, at) ==
    LET f == Fresh(st, init, at)
    IN  [folder |-> [base |-> self.base, out |-> <<>>, item |-> f.id],
         store |-> f.store, clones |-> 0, inits |-> 1]

\* A consumer that reports full() whatever the downstream says.
MapInitConsumer_full_always(self) == TRUE

MapInitConsumer_full(self) == Down_full(self.out)

MapInitConsumer_split_off_left(self, st, at) ==
    [left |-> MapInitConsumer_new(Down_split_off_left(self.base)),
     right |-> MapInitConsumer_new(Down_after_split_off_left(self.base)),
     store |-> st, clones |-> 0, inits |-> 0]

MapInitConsumer_to_reducer(self) == Down_to_reducer(self.base)

\* ----------------------------------------------------- MapInit: producer side
\* A split that wraps the base's right half as its left and its left as its right.
MapInitProducer_split_at_swapped(self, index, st, at) ==
    LET b == Base_split_at(self, index)
    IN  [left |-> [item |-> 0] @@ b.right,
         right |-> [item |-> 0] @@ b.left,
         store |-> st, clones |-> 0, inits |-> 0]

MapInitProducer_split_at(self, index, st, at) ==
    LET b == Base_split_at(self, index)
    IN  [left |-> [item |-> 0] @@ b.left,
         right |-> [item |-> 0] @@ b.right,
         store |-> st, clones |-> 0, inits |-> 0]

MapInitProducer_min_len(self) == Base_min_len(self)

MapInitProducer_max_len(self) == Base_max_len(self)

MapInitProducer_into_iter(self, st, at) ==
    LET f == Fresh(st, init, at)
    IN  [iter |-> [item |-> f.id], store |-> f.store, clones |-> 0, inits |-> 1]

\* A fold_with that runs the initializer once more than it needs.
MapInitProducer_fold_with_twice(self, st, at) ==
    LET f == Fresh(Fresh(st, init, at).store, init, at)
    IN  [folder |-> [item |-> f.id], store |-> f.store, clones |-> 0, inits |-> 2]

MapInitProducer_fold_with(self, st, at) ==
    LET f == Fresh(st, init, at)
    IN  [folder |-> [item |-> f.id], store |-> f.store, clones |-> 0, inits |-> 1]

\* ------------------------------------------------------------ construction
\* new / new_init: the adapter holds the base iterator, the state (MapWith) or
\* the initializer (MapInit), and map_op.  Nothing has run.  The drive is
\* either one of the bounded inputs under any downstream limit, or the
\* running-sum example under a downstream that never saturates.
Init ==
    /\ \/ input \in Inputs /\ limit \in Limits /\ splits = MaxSplits
       \/ input = ExampleInput /\ limit = NoLimit /\ splits = ExampleSplits
    /\ adapter \in {"MapWith", "MapInit"}
    /\ path = "new"
    /\ node = << >>
    /\ store = IF adapter = "MapWith" THEN (1 :> InitVal) ELSE << >>
    /\ initCalls = 0
    /\ cloneCalls = 0

Root(item) == [NoNode EXCEPT !.hi = Len(input), !.item = item]

\* drive: the downstream consumer is wrapped and handed to the base iterator.
drive ==
    /\ path = "new"
    /\ path' = "drive"
    /\ LET consumer1 == IF adapter = "MapWith" THEN MapWithConsumer_new(1, 1)
                                               ELSE MapInitConsumer_new(1)
       IN  node' = (1 :> [Root(consumer1.item) EXCEPT !.base = consumer1.base])
    /\ UNCHANGED <<input, adapter, limit, store, initCalls, cloneCalls, splits>>

drive_unindexed ==
    /\ path = "new"
    /\ path' = "drive_unindexed"
    /\ LET consumer1 == IF adapter = "MapWith" THEN MapWithConsumer_new(1, 1)
                                               ELSE MapInitConsumer_new(1)
       IN  node' = (1 :> [Root(consumer1.item) EXCEPT !.base = consumer1.base])
    /\ UNCHANGED <<input, adapter, limit, store, initCalls, cloneCalls, splits>>

\* with_producer: the base producer is wrapped and handed to the callback,
\* which bridges it to the downstream consumer.
with_producer ==
    /\ path = "new"
    /\ path' = "with_producer"
    /\ node' = (1 :> Root(IF adapter = "MapWith" THEN 1 ELSE 0))
    /\ UNCHANGED <<input, adapter, limit, store, initCalls, cloneCalls, splits>>

\* ------------------------------------------------------------- the bridge
Child(lohi, cons) ==
    [NoNode EXCEPT !.lo = lohi.lo, !.hi = lohi.hi, !.base = cons.base, !.item = cons.item,
                   !.min_len = lohi.min_len, !.max_len = lohi.max_len]

Install(n, index, r, L, R) ==
    /\ node' = (2 * n :> L) @@ (2 * n + 1 :> R) @@
               [node EXCEPT ![n].st = "split", ![n].item = 0, ![n].index = index,
                            ![n].reducer = r.reducer]
    /\ store' = r.store
    /\ cloneCalls' = cloneCalls + r.clones
    /\ initCalls' = initCalls + r.inits
    /\ splits' = splits - 1
    /\ UNCHANGED <<input, adapter, limit, path>>

\* The bridge asks its consumer whether it is full(): the adapter's consumer
\* on the consumer path, the downstream consumer itself on the producer path.
BridgeFull(n) ==
    IF path = "with_producer" THEN Down_full(node[n].out)
    ELSE IF adapter = "MapWith" THEN MapWithConsumer_full(node[n])
    ELSE MapInitConsumer_full(node[n])

CanSplit(n) ==
    /\ n \in Nodes
    /\ node[n].st = "ready"
    /\ ~BridgeFull(n)
    /\ splits > 0

\* An indexed split on the consumer path: the base producer and the adapter's
\* consumer are split at the same index.
SplitDrive(n, index) ==
    /\ path = "drive"
    /\ CanSplit(n)
    /\ index \in 0..Base_len(node[n])
    /\ LET b == Base_split_at(node[n], index)
           r == IF adapter = "MapWith" THEN MapWithConsumer_split_at(node[n], index, store, 2 * n)
                                       ELSE MapInitConsumer_split_at(node[n], index, store, 2 * n)
       IN  Install(n, index, r, Child(b.left, r.left), Child(b.right, r.right))

\* An unindexed split: the base producer splits where it likes, the adapter's
\* consumer gives its reducer and peels off a left consumer.
SplitUnindexed(n, index) ==
    /\ path = "drive_unindexed"
    /\ CanSplit(n)
    /\ index \in 0..Base_len(node[n])
    /\ LET b == Base_split_at(node[n], index)
           reducer == IF adapter = "MapWith" THEN MapWithConsumer_to_reducer(node[n])
                                             ELSE MapInitConsumer_to_reducer(node[n])
           r == IF adapter = "MapWith" THEN MapWithConsumer_split_off_left(node[n], store, 2 * n)
                                       ELSE MapInitConsumer_split_off_left(node[n], store, 2 * n)
       IN  Install(n, index, r @@ [reducer |-> reducer],
                   Child(b.left, r.left), Child(b.right, r.right))

\* An indexed split on the producer path: the adapter's producer and the
\* downstream consumer are split at the same index.
SplitProducer(n, index) ==
    /\ path = "with_producer"
    /\ CanSplit(n)
    /\ index \in 0..Base_len(node[n])
    /\ LET s == Down_split_at(node[n].base, index)
           r == IF adapter = "MapWith" THEN MapWithProducer_split_at(node[n], index, store, 2 * n)
                                       ELSE MapInitProducer_split_at(node[n], index, store, 2 * n)
       IN  Install(n, index, r @@ [reducer |-> s.reducer],
                   Child(r.left, [base |-> s.left, item |-> r.left.item]),
                   Child(r.right, [base |-> s.right, item |-> r.right.item]))

Convert(n, r, it, mode) ==
    /\ node' = [node EXCEPT ![n].st = "leaf", ![n].item = it.item, ![n].mode = mode,
                            ![n].inits = @ + r.inits, ![n].seed = r.store[it.item]]
    /\ store' = r.store
    /\ cloneCalls' = cloneCalls + r.clones
    /\ initCalls' = initCalls + r.inits
    /\ UNCHANGED <<input, adapter, limit, path, splits>>

CanFold(n) ==
    /\ n \in Nodes
    /\ node[n].st = "ready"
    /\ ~BridgeFull(n)

\* A leaf on the consumer path: base.fold_with(consumer.into_folder()).
into_folder(n) ==
    /\ path \in {"drive", "drive_unindexed"}
    /\ CanFold(n)
    /\ LET r == IF adapter = "MapWith" THEN MapWithConsumer_into_folder(node[n], store, n)
                                       ELSE MapInitConsumer_into_folder(node[n], store, n)
       IN  Convert(n, r, r.folder, "into_folder")

\* A leaf on the producer path: producer.fold_with(consumer.into_folder()).
fold_with(n) ==
    /\ path = "with_producer"
    /\ CanFold(n)
    /\ LET r == IF adapter = "MapWith" THEN MapWithProducer_fold_with(node[n], store, n)
                                       ELSE MapInitProducer_fold_with(node[n], store, n)
       IN  Convert(n, r, r.folder, "fold_with")

\* A leaf on the producer path driven through the sequential iterator.
into_iter(n) ==
    /\ path = "with_producer"
    /\ CanFold(n)
    /\ LET r == IF adapter = "MapWith" THEN MapWithProducer_into_iter(node[n], store, n)
                                       ELSE MapInitProducer_into_iter(node[n], store, n)
       IN  Convert(n, r, r.iter, "into_iter")

Running(n) ==
    /\ n \in Nodes
    /\ node[n].st = "leaf"
    /\ ~node[n].stopped
    /\ ~Base_exhausted(node[n])

\* One turn of the fold loop of a leaf folder.  The base producer either
\* feeds the MapWithFolder item by item, consume and then full(), or hands it
\* its iterator, consume_iter, and then the downstream folder pulls the
\* mapped items and breaks when it is full() itself.
consume(n) ==
    /\ Running(n)
    /\ node[n].mode \in {"into_folder", "fold_with"}
    /\ \E bulk \in BOOLEAN :
        LET r == IF bulk
                 THEN MapWithFolder_consume_iter(node[n], Base_next(node[n]), store)
                 ELSE MapWithFolder_consume(node[n], Base_next(node[n]), store)
            f == r.folder
            full == IF bulk THEN Down_full(f.out) ELSE MapWithFolder_full(f)
        IN  /\ node' = [node EXCEPT ![n] = [f EXCEPT !.pos = @ + 1, !.stopped = full]]
            /\ store' = r.store
    /\ UNCHANGED <<input, adapter, limit, path, initCalls, cloneCalls, splits>>

\* One turn of the loop that feeds a folder from a leaf iterator: next() on
\* the MapWithIter, consume on the downstream folder, break when it is full().
next(n) ==
    /\ Running(n)
    /\ node[n].mode = "into_iter"
    /\ LET r == MapWithIter_next(node[n], store)
           out == Down_consume(r.iter.out, r.mapped)
       IN  /\ r.some
           /\ node' = [node EXCEPT ![n] = [r.iter EXCEPT !.out = out,
                                                         !.stopped = Down_full(out)]]
           /\ store' = r.store
    /\ UNCHANGED <<input, adapter, limit, path, initCalls, cloneCalls, splits>>

\* The leaf's loop is over: complete() gives the branch's result.
complete(n) ==
    /\ n \in Nodes
    /\ node[n].st = "leaf"
    /\ node[n].stopped \/ Base_exhausted(node[n])
    /\ node' = [node EXCEPT ![n].st = "done",
                            ![n].res = IF node[n].mode = "into_folder"
                                       THEN MapWithFolder_complete(node[n])
                                       ELSE Down_complete(node[n].base, node[n].out)]
    /\ UNCHANGED <<input, adapter, limit, path, store, initCalls, cloneCalls, splits>>

\* The consumer is full() before the branch starts: the bridge completes an
\* empty folder and drops the producer.
ShortCircuit(n) ==
    /\ n \in Nodes
    /\ node[n].st = "ready"
    /\ BridgeFull(n)
    /\ LET r == IF path = "with_producer"
                THEN [folder |-> [item |-> 0], store |-> store, clones |-> 0, inits |-> 0]
                ELSE IF adapter = "MapWith" THEN MapWithConsumer_into_folder(node[n], store, n)
                ELSE MapInitConsumer_into_folder(node[n], store, n)
       IN  /\ node' = [node EXCEPT ![n].st = "done", ![n].item = r.folder.item,
                                   ![n].stopped = TRUE,
                                   ![n].inits = @ + r.inits,
                                   ![n].mode = IF path = "with_producer" THEN "dropped"
                                               ELSE "into_folder",
                                   ![n].res = Down_complete(node[n].base, <<>>)]
           /\ store' = r.store
           /\ initCalls' = initCalls + r.inits
           /\ cloneCalls' = cloneCalls + r.clones
    /\ UNCHANGED <<input, adapter, limit, path, splits>>

\* Both sides of a split have returned: the reducer combines their results,
\* the left one first.
reduce(n) ==
    /\ n \in Nodes
    /\ node[n].st = "split"
    /\ node[2 * n].st = "done"
    /\ node[2 * n + 1].st = "done"
    /\ node' = [node EXCEPT ![n].st = "done",
                            ![n].res = Down_reduce(node[2 * n].res, node[2 * n + 1].res)]
    /\ UNCHANGED <<input, adapter, limit, path, store, initCalls, cloneCalls, splits>>

NodeIds == 1..(2 ^ (MaxSplits + 1) - 1)

Next ==
    \/ drive
    \/ drive_unindexed
    \/ with_producer
    \/ \E n \in NodeIds, index \in 0..Len(input) : SplitDrive(n, index)
    \/ \E n \in NodeIds, index \in 0..Len(input) : SplitUnindexed(n, index)
    \/ \E n \in NodeIds, index \in 0..Len(input) : SplitProducer(n, index)
    \/ \E n \in NodeIds : into_folder(n)
    \/ \E n \in NodeIds : fold_with(n)
    \/ \E n \in NodeIds : into_iter(n)
    \/ \E n \in NodeIds : consume(n)
    \/ \E n \in NodeIds : next(n)
    \/ \E n \in NodeIds : complete(n)
    \/ \E n \in NodeIds : ShortCircuit(n)
    \/ \E n \in NodeIds : reduce(n)

Spec == Init /\ [][Next]_vars

\* ------------------------------------------------------------------ failure
\* The call (self.map_op)(&mut self.item, item) or the downstream consume
\* after it panics.  map_op was invoked; it holds the state by mutable
\* reference, so the unwinding leaves the state either as it was or as map_op
\* wrote it, and nothing reaches the downstream folder.
MapWithFolder_consume_unwind(self, x, st, mutated) ==
    [folder |-> [self EXCEPT !.calls = @ + 1],
     store |-> IF mutated THEN [st EXCEPT ![self.item] = map_op(st[self.item], x).item]
                          ELSE st]

\* The same failure inside next() of a leaf iterator.
MapWithIter_next_unwind(self, st, mutated) ==
    [iter |-> [self EXCEPT !.calls = @ + 1],
     store |-> IF mutated THEN [st EXCEPT ![self.item] = map_op(st[self.item], Base_next(self)).item]
                          ELSE st]

\* A leaf fails in the middle of its loop: the branch unwinds.
panic(n) ==
    /\ Running(n)
    /\ \E mutated \in BOOLEAN :
        LET r == IF node[n].mode = "into_iter"
                 THEN MapWithIter_next_unwind(node[n], store, mutated)
                 ELSE MapWithFolder_consume_unwind(node[n], Base_next(node[n]), store, mutated)
            f == IF node[n].mode = "into_iter" THEN r.iter ELSE r.folder
        IN  /\ node' = [node EXCEPT ![n] = [f EXCEPT !.st = "panicked"]]
            /\ store' = r.store
    /\ UNCHANGED <<input, adapter, limit, path, initCalls, cloneCalls, splits>>

\* The join of a split one side of which failed: it waits for the other side
\* to return and then resumes the unwinding in the parent branch.
unwind(n) ==
    /\ n \in Nodes
    /\ node[n].st = "split"
    /\ {node[2 * n].st, node[2 * n + 1].st} \subseteq {"done", "panicked"}
    /\ "panicked" \in {node[2 * n].st, node[2 * n + 1].st}
    /\ node' = [node EXCEPT ![n].st = "panicked"]
    /\ UNCHANGED <<input, adapter, limit, path, store, initCalls, cloneCalls, splits>>

\* A drive in which branches may fail, under a scheduler that splits at most
\* PanicSplits times.
InitPanic ==
    /\ input \in Inputs /\ limit \in Limits /\ splits = PanicSplits
    /\ adapter \in {"MapWith", "MapInit"}
    /\ path = "new"
    /\ node = << >>
    /\ store = IF adapter = "MapWith" THEN (1 :> InitVal) ELSE << >>
    /\ initCalls = 0
    /\ cloneCalls = 0

NextPanic ==
    \/ Next
    \/ \E n \in NodeIds : panic(n)
    \/ \E n \in NodeIds : unwind(n)

SpecPanic == InitPanic /\ [][NextPanic]_vars

\* ----------------------------------------------- the producer in a callback
\* with_producer has handed its callback the adapter's producer over a base
\* producer with some hints; the callback splits it, asks for its hints,
\* turns it into an iterator and pulls that from either end.
InitProducer ==
    /\ input \in Inputs /\ limit = NoLimit /\ splits = IterSplits
    /\ adapter \in {"MapWith", "MapInit"}
    /\ path = "with_producer"
    /\ \E h \in BaseHints :
        node = (1 :> [Root(IF adapter = "MapWith" THEN 1 ELSE 0)
                        EXCEPT !.min_len = h.min_len, !.max_len = h.max_len])
    /\ store = IF adapter = "MapWith" THEN (1 :> InitVal) ELSE << >>
    /\ initCalls = 0
    /\ cloneCalls = 0

IsIter(n) == n \in Nodes /\ node[n].st = "leaf" /\ node[n].mode = "into_iter"

\* A call of next() or next_back() on a leaf iterator, by a caller that
\* keeps the item it gets.
Pull(n, r) ==
    /\ node' = [node EXCEPT ![n] = [r.iter EXCEPT
                    !.out = IF r.some THEN Append(@, r.mapped) ELSE @,
                    !.last = IF r.some THEN "some" ELSE "end"]]
    /\ store' = r.store
    /\ UNCHANGED <<input, adapter, limit, path, initCalls, cloneCalls, splits>>

iter_next(n) == IsIter(n) /\ Pull(n, MapWithIter_next(node[n], store))

iter_next_back(n) == IsIter(n) /\ Pull(n, MapWithIter_next_back(node[n], store))

Query(n, op, answer) ==
    /\ node' = [node EXCEPT ![n].seen = <<op, answer>>]
    /\ UNCHANGED <<input, adapter, limit, path, store, initCalls, cloneCalls, splits>>

size_hint(n) == IsIter(n) /\ Query(n, "size_hint", MapWithIter_size_hint(node[n]))

IsProducer(n) == n \in Nodes /\ node[n].st = "ready" /\ path = "with_producer"

min_len(n) ==
    /\ IsProducer(n)
    /\ Query(n, "min_len", IF adapter = "MapWith" THEN MapWithProducer_min_len(node[n])
                                                  ELSE MapInitProducer_min_len(node[n]))

max_len(n) ==
    /\ IsProducer(n)
    /\ Query(n, "max_len", IF adapter = "MapWith" THEN MapWithProducer_max_len(node[n])
                                                  ELSE MapInitProducer_max_len(node[n]))

NextProducer ==
    \/ \E n \in NodeIds, index \in 0..Len(input) : SplitProducer(n, index)
    \/ \E n \in NodeIds : into_iter(n)
    \/ \E n \in NodeIds : iter_next(n)
    \/ \E n \in NodeIds : iter_next_back(n)
    \/ \E n \in NodeIds : size_hint(n)
    \/ \E n \in NodeIds : min_len(n)
    \/ \E n \in NodeIds : max_len(n)

SpecProducer == InitProducer /\ [][NextProducer]_vars

\* ------------------------------------------------------------ vocabulary
Min(a, b) == IF a < b THEN a ELSE b

\* The sum of the k items of the input that follow position lo.
RECURSIVE SumFrom(_, _)
SumFrom(lo, k) == IF k = 0 THEN 0 ELSE SumFrom(lo, k - 1) + input[lo + k]

\* What a sequential run over the first k items after lo yields when it
\* starts from a fresh copy of the initial state: the running sums.
FreshRun(lo, k) == [j \in 1..k |-> InitVal + SumFrom(lo, j)]

Holds(n) == node[n].st \in {"ready", "leaf"} /\ node[n].item # 0
Converted(n) == node[n].mode \in {"into_folder", "fold_with", "into_iter"}
Executed == {n \in Nodes : Converted(n)}
TreeLeaves == {n \in Nodes : 2 * n \notin Nodes}
RootDone == 1 \in Nodes /\ node[1].st = "done"
NeverSplit == Nodes = {1}

\* The number of items a branch of len items takes before its downstream
\* folder is full.
Taken(len) == IF limit = NoLimit THEN len ELSE Min(limit, len)

\* The mapped items of a result, in the order the result holds them.
RECURSIVE Flatten(_)
Flatten(res) == IF res = <<>> THEN <<>> ELSE Head(res).out \o Flatten(Tail(res))

\* The leaf n was split off as, taken on its own: nothing pulled yet, holding
\* a single state instance of value v.
AsProducer(p, v) ==
    [store |-> (0 :> v),
     self |-> [p EXCEPT !.item = 0, !.pos = 0, !.out = <<>>, !.calls = 0, !.stopped = FALSE]]

\* The sequential output of an iterator: next() until the base is exhausted.
RECURSIVE IterOutput(_, _)
IterOutput(self, st) ==
    LET r == MapWithIter_next(self, st)
    IN  IF r.some THEN <<r.mapped>> \o IterOutput(r.iter, r.store) ELSE <<>>

\* The sequential output of the adapter's producer p when the state
\* instances are st: into_iter(), then next() to the end.
SeqOutput(p, st) ==
    LET c == IF adapter = "MapWith" THEN MapWithProducer_into_iter(p, st, 0)
                                    ELSE MapInitProducer_into_iter(p, st, 0)
    IN  IterOutput([p EXCEPT !.item = c.iter.item, !.pos = 0, !.calls = 0], c.store)

\* Feeding a downstream folder from an iterator item by item: next(), consume,
\* and stop once the folder is full().
RECURSIVE IterFeed(_, _)
IterFeed(self, st) ==
    LET r == MapWithIter_next(self, st)
        fed == [r.iter EXCEPT !.out = Down_consume(@, r.mapped)]
    IN  IF ~r.some THEN [self |-> self, store |-> st]
        ELSE IF Down_full(fed.out) THEN [self |-> fed, store |-> r.store]
        ELSE IterFeed(fed, r.store)

\* What the split tree below n must return, whatever the schedule: each
\* leaf's own sequential run, tagged with the downstream consumer in the
\* leaf's place of the tree, in left-then-right order.
RECURSIVE TreeResult(_)
TreeResult(n) ==
    IF 2 * n \in Nodes
    THEN TreeResult(2 * n) \o TreeResult(2 * n + 1)
    ELSE <<[base |-> n,
            out |-> FreshRun(node[n].lo, Taken(node[n].hi - node[n].lo))]>>

\* The invocations of map_op in the subtree below n.
RECURSIVE SubCalls(_)
SubCalls(n) ==
    IF n \notin Nodes THEN 0
    ELSE node[n].calls + SubCalls(2 * n) + SubCalls(2 * n + 1)

\* The leaves that have pulled the k-th item of the input.
Pulled(k) == {n \in Nodes : node[n].lo < k /\ k <= node[n].lo + node[n].pos}

\* --------------------------------------------------------------------- C1
\* C1: MapWith state isolation.  In every reachable state no two branches
\* hold the same state instance, and a map_op step in one branch leaves the
\* state of every other branch as it was.
NoSharedInstance ==
    \A n, m \in Nodes : (n # m /\ Holds(n) /\ Holds(m)) => node[n].item # node[m].item

OnlyOwnStateChanges ==
    \A n \in Nodes :
        (n \in DOMAIN node' /\ node'[n].calls # node[n].calls) =>
            \A m \in Nodes \ {n} :
                node[m].item # 0 => store'[node[m].item] = store[node[m].item]

C1_StateIsolation == [](adapter = "MapWith" => NoSharedInstance) /\ [][OnlyOwnStateChanges]_vars

\* Two MapWith leaves are running at once and both have mutated their state.
C1_Witness ==
    /\ adapter = "MapWith"
    /\ \E n, m \in Nodes :
        /\ n # m
        /\ node[n].st = "leaf" /\ node[m].st = "leaf"
        /\ node[n].calls > 0 /\ node[m].calls > 0
        /\ store[node[n].item] # store[node[m].item]

\* --------------------------------------------------------------------- C2
\* C2: MapWith per-item result.  The j-th value a leaf has delivered is what a
\* sequential run from a fresh copy of the initial state yields for the j-th
\* item of that leaf, whatever the sibling branches did; for [1,2,3,4,5] into
\* a consumer that is never full the unsplit drive yields [1,3,6,10,15] and a
\* split at 2 yields [1,3] and [3,7,12].
C2_PerItemResult ==
    /\ \A n \in Nodes :
        node[n].st \in {"leaf", "done"} =>
            node[n].out = FreshRun(node[n].lo, Len(node[n].out))
    /\ (input = ExampleInput /\ limit = NoLimit /\ RootDone /\ NeverSplit) =>
            node[1].out = <<1, 3, 6, 10, 15>>
    /\ (input = ExampleInput /\ limit = NoLimit /\ RootDone
            /\ TreeLeaves = {2, 3} /\ node[2].hi = 2) =>
            node[2].out = <<1, 3>> /\ node[3].out = <<3, 7, 12>>

\* The example was driven through MapWith with one split at index 2.
C2_Witness ==
    /\ adapter = "MapWith"
    /\ input = ExampleInput
    /\ RootDone
    /\ TreeLeaves = {2, 3} /\ node[2].hi = 2
    /\ node[2].out = <<1, 3>>
    /\ node[3].out = <<3, 7, 12>>

\* --------------------------------------------------------------------- C3
\* C3 as stated: after a full MapInit drive the initializer has run once per
\* leaf of the split tree, and exactly once when the drive never split.
C3_InitOncePerLeaf_Original ==
    (adapter = "MapInit" /\ RootDone) =>
        /\ initCalls = Cardinality(TreeLeaves)
        /\ NeverSplit => initCalls = 1

\* A branch the bridge drops because its consumer is full() before it starts.
Dropped(n) == node[n].st = "done" /\ node[n].mode = "dropped"

\* C3 amended: the initializer has run exactly once for every branch converted
\* to a leaf by into_folder, into_iter or fold_with and for nothing else, however
\* many splits lie above it.  After a full drive these are all leaves of the
\* split tree, except that on the producer path a branch whose consumer is
\* already full() is dropped unconverted and runs no initializer; so a
\* never-split drive runs it once, or not at all in that one case.
C3_InitOncePerLeaf ==
    adapter = "MapInit" =>
        /\ initCalls = Cardinality(Executed)
        /\ \A n \in Nodes : node[n].inits = IF Converted(n) THEN 1 ELSE 0
        /\ \A n \in Nodes : Dropped(n) => path = "with_producer" /\ Down_full(<<>>)
        /\ RootDone => Executed = {n \in TreeLeaves : ~Dropped(n)}
        /\ (RootDone /\ NeverSplit) => initCalls = IF Dropped(1) THEN 0 ELSE 1

\* A MapInit drive with two splits above its leaves has finished: three
\* leaves ran and the initializer ran three times.
C3_Witness ==
    /\ adapter = "MapInit"
    /\ RootDone
    /\ Cardinality(TreeLeaves) = 3
    /\ Cardinality(Executed) = 3
    /\ initCalls = 3
    /\ \E n \in Nodes : node[n].calls > 0

\* --------------------------------------------------------------------- C4
\* C4: MapInit laziness and ordering.  Construction, drive, drive_unindexed,
\* with_producer, split_at and split_off_left never run the initializer; it
\* runs once, in the step that converts a branch to a leaf, and so before the
\* first map_op of that leaf.
InitOnlyInLeaves ==
    /\ path = "new" => initCalls = 0
    /\ \A n \in Nodes :
        /\ node[n].st \in {"ready", "split"} => node[n].inits = 0 /\ node[n].item = 0
        /\ node[n].calls > 0 => node[n].inits = 1 /\ node[n].item # 0

InitAtConversion ==
    /\ (path' # path \/ DOMAIN node' # DOMAIN node) => initCalls' = initCalls
    /\ initCalls' # initCalls =>
        /\ initCalls' = initCalls + 1
        /\ \E n \in Nodes :
            /\ node[n].st = "ready" /\ node'[n].st \in {"leaf", "done"}
            /\ node[n].inits = 0 /\ node'[n].inits = 1
            /\ node[n].calls = 0 /\ node'[n].calls = 0
            /\ store'[node'[n].item] = init
    /\ \A n \in Nodes :
        (n \in DOMAIN node' /\ node'[n].calls # node[n].calls) =>
            node[n].st = "leaf" /\ node[n].inits = 1 /\ initCalls' = initCalls

C4_InitLazyOrdered ==
    [](adapter = "MapInit" => InitOnlyInLeaves) /\ [][adapter = "MapInit" => InitAtConversion]_vars

\* A MapInit branch below a split was converted and has mapped an item, while
\* its sibling, not yet converted, has no state.
C4_Witness ==
    /\ adapter = "MapInit"
    /\ \E n \in Nodes \ {1} :
        /\ node[n].st = "leaf" /\ node[n].inits = 1 /\ node[n].calls > 0
        /\ \E m \in Nodes \ {1, n} : node[m].st = "ready" /\ node[m].item = 0
    /\ initCalls = 1

\* --------------------------------------------------------------------- C5
\* C5 as stated: with a downstream that is full() after N items, map_op runs
\* at most N times in every branch and the overall result is that of running
\* only the first N items of the input.
C5_Saturation_Original ==
    (limit # NoLimit /\ RootDone) =>
        /\ \A n \in Nodes : node[n].calls <= limit
        /\ Flatten(node[1].res) = FreshRun(0, Taken(Len(input)))

\* C5 amended: with a downstream whose folders are full() after N items,
\* map_op runs at most N times in every branch, and every branch's result is
\* that of running only the first N items of that branch; the overall result
\* is these results in branch order, which is the first N items of the input
\* when the drive never split.
C5_Saturation ==
    limit # NoLimit =>
        /\ \A n \in Nodes :
            /\ node[n].calls <= limit
            /\ node[n].calls = Len(node[n].out)
            /\ (node[n].st = "done" /\ n \in TreeLeaves) =>
                /\ node[n].calls = Taken(node[n].hi - node[n].lo)
                /\ node[n].out = FreshRun(node[n].lo, Taken(node[n].hi - node[n].lo))
                /\ node[n].res = Down_complete(node[n].base, node[n].out)
        /\ (RootDone /\ NeverSplit) =>
                Flatten(node[1].res) = FreshRun(0, Taken(Len(input)))
        /\ (RootDone /\ 2 \in Nodes) =>
                Flatten(node[1].res) = Flatten(node[2].res) \o Flatten(node[3].res)

\* A split drive has finished in which a branch with more than N items
\* stopped after N of them.
C5_Witness ==
    /\ limit # NoLimit
    /\ RootDone
    /\ \E n \in TreeLeaves \ {1} :
        /\ node[n].hi - node[n].lo > limit
        /\ node[n].calls = limit
        /\ node[n].calls > 0
        /\ node[n].stopped

\* --------------------------------------------------------------------- C6
SplitStep(n) ==
    /\ node[n].st = "ready"
    /\ 2 * n \in DOMAIN node'
    /\ node'[n].st = "split"

\* C6 as stated: split_at(i) of an adapter producer of length n yields a left
\* producer of length i and a right one of length n - i, and their sequential
\* outputs, concatenated, are the sequential output of the original.
SplitConservation_Original ==
    path = "with_producer" =>
        \A n \in Nodes : SplitStep(n) =>
            LET i == node'[n].index
                L == node'[2 * n]
                R == node'[2 * n + 1]
            IN  /\ Base_len(L) = i
                /\ Base_len(R) = Base_len(node[n]) - i
                /\ SeqOutput(L, store') \o SeqOutput(R, store') = SeqOutput(node[n], store)

C6_SplitConservation_Original == [][SplitConservation_Original]_vars

\* C6 amended: split_at(i) yields a left producer of length i over the first
\* i base items and a right one of length n - i over the rest, each holding
\* state equal to the pre-split state; the sequential output of each side is
\* what the original would yield over that side's items alone, so the
\* concatenation is the original's output when i = 0 or i = n, and otherwise
\* the right side's values start again from the pre-split state.
SplitConservation ==
    path = "with_producer" =>
        \A n \in Nodes : SplitStep(n) =>
            LET i == node'[n].index
                P == node[n]
                L == node'[2 * n]
                R == node'[2 * n + 1]
            IN  /\ Base_len(L) = i
                /\ Base_len(R) = Base_len(P) - i
                /\ L.lo = P.lo /\ L.hi = P.lo + i /\ R.lo = P.lo + i /\ R.hi = P.hi
                /\ SeqOutput(L, store') = SeqOutput([P EXCEPT !.hi = P.lo + i], store)
                /\ SeqOutput(R, store') = SeqOutput([P EXCEPT !.lo = P.lo + i], store)
                /\ (i = 0 \/ i = Base_len(P)) =>
                    SeqOutput(L, store') \o SeqOutput(R, store') = SeqOutput(P, store)

C6_SplitConservation == [][SplitConservation]_vars

\* An adapter producer was split strictly inside its range, and both sides
\* are still unconverted producers.
C6_Witness ==
    /\ path = "with_producer"
    /\ \E n \in Nodes :
        /\ node[n].st = "split"
        /\ 0 < node[n].index /\ node[n].index < node[n].hi - node[n].lo
        /\ node[2 * n].st = "ready" /\ node[2 * n + 1].st = "ready"
        /\ node[2 * n].hi - node[2 * n].lo = node[n].index

\* --------------------------------------------------------------------- C7
\* C7: folder/iterator equivalence.  A leaf that ran fold_with(folder) ends
\* with the result, the number of map_op invocations and the state that
\* into_iter() followed by feeding the folder item by item gives from the
\* same start, and for MapInit with one initializer invocation on either path.
C7_FoldIterEquivalence ==
    \A n \in Nodes :
        (node[n].st = "done" /\ node[n].mode \in {"fold_with", "into_iter"}) =>
            LET p == AsProducer(node[n], node[n].seed)
                ref == IterFeed(p.self, p.store)
            IN  /\ node[n].out = ref.self.out
                /\ node[n].calls = ref.self.calls
                /\ node[n].pos = ref.self.pos
                /\ store[node[n].item] = ref.store[ref.self.item]
                /\ node[n].res = Down_complete(node[n].base, ref.self.out)
                /\ adapter = "MapInit" => node[n].inits = 1

\* Below one split, one side ran fold_with and the other into_iter; the
\* fold_with side mapped at least two items and stopped at a full folder
\* before its base was exhausted.
C7_Witness ==
    /\ path = "with_producer"
    /\ \E n, m \in TreeLeaves :
        /\ node[n].st = "done" /\ node[n].mode = "fold_with"
        /\ node[n].calls >= 2 /\ node[n].calls < node[n].hi - node[n].lo
        /\ node[m].st = "done" /\ node[m].mode = "into_iter"
        /\ node[m].calls >= 1

\* --------------------------------------------------------------------- C8
\* C8: order and schedule independence.  A split wraps the base's left
\* sub-consumer as the left branch and its right as the right branch and
\* passes the base's reducer on, so for a fixed split tree every branch
\* returns the same result in every interleaving: its leaves' runs combined
\* in left-then-right index order.
C8_ScheduleIndependence ==
    /\ \A n \in Nodes :
        2 * n \in Nodes =>
            /\ node[2 * n].base = 2 * node[n].base
            /\ node[2 * n + 1].base = 2 * node[n].base + 1
            /\ node[n].reducer = node[n].base
            /\ node[2 * n].hi = node[2 * n + 1].lo
    /\ \A n \in Nodes : node[n].st = "done" => node[n].res = TreeResult(n)

\* The right side of the root split was split again, both its leaves mapped
\* items and its reducer has combined them, all before the left side of the
\* root, which has items too, was converted.
C8_Witness ==
    /\ 6 \in Nodes
    /\ node[3].st = "done" /\ Len(node[3].res) = 2
    /\ node[6].calls > 0 /\ node[7].calls > 0
    /\ node[2].st = "ready" /\ node[2].hi > node[2].lo

\* --------------------------------------------------------------------- C9
\* C9: exactly-once mapping.  With a downstream that never saturates, no
\* upstream item is mapped twice, every mapped item goes to the folder of the
\* leaf that pulled it, and after the drive map_op has run once for every
\* upstream item and every leaf's contribution is in the result exactly once.
C9_ExactlyOnce ==
    limit = NoLimit =>
        /\ \A k \in 1..Len(input) : Cardinality(Pulled(k)) <= 1
        /\ \A n \in Nodes :
            /\ node[n].calls = node[n].pos
            /\ Len(node[n].out) = node[n].calls
        /\ RootDone =>
            /\ SubCalls(1) = Len(input)
            /\ \A k \in 1..Len(input) : Cardinality(Pulled(k)) = 1
            /\ Len(Flatten(node[1].res)) = Len(input)
            /\ Len(node[1].res) = Cardinality(TreeLeaves)
            /\ \A n \in TreeLeaves :
                Cardinality({i \in 1..Len(node[1].res) :
                    node[1].res[i] = [base |-> node[n].base, out |-> node[n].out]}) = 1

\* A drive with two splits over four items has finished without saturation.
C9_Witness ==
    /\ limit = NoLimit
    /\ RootDone
    /\ Len(input) = 4
    /\ Cardinality(TreeLeaves) = 3
    /\ SubCalls(1) = 4
    /\ \A n \in TreeLeaves : node[n].calls > 0

\* -------------------------------------------------------------------- C10
\* C10: empty input and degenerate splits.  A drive over an empty upstream
\* completes with the downstream's result and no call of map_op; a split at 0
\* leaves the left branch empty and a split at the length the right branch,
\* the empty branch completes with no call of map_op and the other branch
\* covers all the items and, unsaturated, maps every one of them.
C10_EmptyAndDegenerate ==
    /\ (Len(input) = 0 /\ RootDone) =>
        /\ SubCalls(1) = 0
        /\ Flatten(node[1].res) = <<>>
        /\ node[1].res = TreeResult(1)
    /\ \A n \in Nodes :
        /\ node[n].hi = node[n].lo => SubCalls(n) = 0
        /\ (node[n].hi = node[n].lo /\ node[n].st = "done") => Flatten(node[n].res) = <<>>
        /\ (2 * n \in Nodes /\ node[n].index \in {0, node[n].hi - node[n].lo}) =>
            LET e == IF node[n].index = 0 THEN 2 * n ELSE 2 * n + 1
                f == IF node[n].index = 0 THEN 2 * n + 1 ELSE 2 * n
            IN  /\ node[n].hi > node[n].lo => node[e].hi = node[e].lo
                /\ SubCalls(e) = 0
                /\ node[f].lo = node[n].lo /\ node[f].hi = node[n].hi
                /\ (node[f].st = "done" /\ limit = NoLimit) =>
                    SubCalls(f) = node[n].hi - node[n].lo

\* A branch with items was split at 0 and, below it, at its full length; both
\* empty branches completed without a call and the third mapped every item.
C10_Witness ==
    /\ RootDone
    /\ Len(input) > 1
    /\ node[1].index = 0
    /\ 6 \in Nodes /\ node[3].index = Len(input)
    /\ node[2].calls = 0 /\ node[7].calls = 0
    /\ node[2].mode # "none" /\ node[7].mode # "none"
    /\ node[6].calls = Len(input)

\* -------------------------------------------------------------------- C11
\* The sum of the items a leaf has mapped is what its state holds.
StateOf(n) == InitVal + SumFrom(node[n].lo, node[n].calls)

Failed == {n \in Nodes : node[n].st = "panicked"}

\* Every branch that has not failed is where a drive without failures puts it.
Unaffected ==
    \A n \in Nodes \ Failed :
        /\ node[n].st \in {"leaf", "done"} /\ n \in TreeLeaves =>
            /\ node[n].out = FreshRun(node[n].lo, Len(node[n].out))
            /\ node[n].calls = Len(node[n].out)
            /\ node[n].item # 0 => store[node[n].item] = StateOf(n)
        /\ node[n].st = "done" => node[n].res = TreeResult(n)
        /\ node[n].st = "ready" /\ node[n].item # 0 => store[node[n].item] = InitVal

\* The step in which a branch fails changes nothing of any other branch.
FailureIsLocal ==
    \A n \in Nodes :
        (node[n].st = "leaf" /\ node'[n].st = "panicked") =>
            \A m \in Nodes \ {n} :
                /\ node'[m] = node[m]
                /\ node[m].item # 0 => store'[node[m].item] = store[node[m].item]

\* C11: panic isolation.  When map_op or the downstream consume fails in one
\* branch, the state of every other branch and the mapped values it delivers
\* are what they are in a drive where nothing fails, and the failing step
\* itself changes no other branch.
C11_PanicIsolation == []Unaffected /\ [][FailureIsLocal]_vars

\* The left branch failed after map_op had written its state, the right
\* branch then mapped all its items and returned, and the join unwound.
C11_Witness ==
    /\ 3 \in Nodes
    /\ node[1].st = "panicked"
    /\ node[2].st = "panicked" /\ node[2].calls > 1
    /\ store[node[2].item] # InitVal + SumFrom(node[2].lo, node[2].calls - 1)
    /\ node[3].st = "done" /\ node[3].calls > 1
    /\ node[3].calls = node[3].hi - node[3].lo

\* -------------------------------------------------------------------- C12
SplitNodes == {n \in Nodes : 2 * n \in Nodes}

\* One clone per split so far, and one state instance more than clones.
CloneCount ==
    /\ adapter = "MapWith" =>
        /\ cloneCalls = Cardinality(SplitNodes)
        /\ Cardinality(DOMAIN store) = cloneCalls + 1
    /\ adapter = "MapInit" => cloneCalls = 0

\* A step clones exactly when it splits a MapWith branch, and then once: one
\* side holds the instance the branch held, the other a new one, both equal
\* to the pre-split state, and no instance that existed has changed.
CloneAtSplit ==
    /\ DOMAIN node' = DOMAIN node => cloneCalls' = cloneCalls
    /\ path' # path => cloneCalls' = cloneCalls
    /\ adapter = "MapWith" =>
        \A n \in Nodes : SplitStep(n) =>
            LET L == node'[2 * n]
                R == node'[2 * n + 1]
                old == node[n].item
            IN  /\ cloneCalls' = cloneCalls + 1
                /\ DOMAIN store' = DOMAIN store \cup {L.item, R.item}
                /\ L.item # R.item
                /\ old \in {L.item, R.item}
                /\ {L.item, R.item} \ DOMAIN store # {}
                /\ store'[L.item] = store[old]
                /\ store'[R.item] = store[old]
                /\ path = "drive_unindexed" => R.item = old
                /\ \A i \in DOMAIN store : store'[i] = store[i]

\* C12: MapWith cloning at splits.  Every split_at and split_off_left clones
\* the state exactly once, gives the original to one side and the clone to
\* the other, both equal to the pre-split state; nothing else clones, so k
\* splits make k clones and k + 1 instances; split_off_left leaves the
\* receiver holding its own, unchanged state.
C12_CloneAtSplits == []CloneCount /\ [][CloneAtSplit]_vars

\* An unindexed MapWith drive with two splits has finished: two clones,
\* three instances, and items were mapped.
C12_Witness ==
    /\ adapter = "MapWith"
    /\ path = "drive_unindexed"
    /\ RootDone
    /\ Cardinality(SplitNodes) = 2
    /\ cloneCalls = 2
    /\ Cardinality(DOMAIN store) = 3
    /\ SubCalls(1) > 0

\* -------------------------------------------------------------------- C13
\* The items of the base producer of branch n, in order.
ItemsOf(n) == [j \in 1..(node[n].hi - node[n].lo) |-> input[node[n].lo + j]]

\* consume_iter over a whole sequence: the downstream folder's consume_iter
\* pulls the mapped iterator item by item and breaks once it is full().
RECURSIVE ConsumeIter(_, _, _)
ConsumeIter(self, items, st) ==
    IF items = <<>> THEN [folder |-> self, store |-> st]
    ELSE LET r == MapWithFolder_consume_iter(self, Head(items), st)
         IN  IF Down_full(r.folder.out) THEN r
             ELSE ConsumeIter(r.folder, Tail(items), r.store)

\* consume called once for every item of the sequence.
RECURSIVE ConsumeEach(_, _, _)
ConsumeEach(self, items, st) ==
    IF items = <<>> THEN [folder |-> self, store |-> st]
    ELSE LET r == MapWithFolder_consume(self, Head(items), st)
         IN  ConsumeEach(r.folder, Tail(items), r.store)

\* consume called for one item after the other until the folder is full().
RECURSIVE ConsumeLoop(_, _, _)
ConsumeLoop(self, items, st) ==
    IF items = <<>> THEN [folder |-> self, store |-> st]
    ELSE LET r == MapWithFolder_consume(self, Head(items), st)
         IN  IF MapWithFolder_full(r.folder) THEN r
             ELSE ConsumeLoop(r.folder, Tail(items), r.store)

SameFolder(a, b) ==
    /\ a.folder.out = b.folder.out
    /\ a.folder.calls = b.folder.calls
    /\ a.store = b.store
    /\ MapWithFolder_complete(a.folder) = MapWithFolder_complete(b.folder)

\* The leaves whose folder the base producer has folded into; a folder the
\* bridge completed at once, its consumer being full, was never fed.
FolderLeaves == {n \in Nodes : /\ node[n].st \in {"leaf", "done"}
                                /\ node[n].mode \in {"into_folder", "fold_with"}
                                /\ ~(node[n].stopped /\ node[n].pos = 0)}

\* The items a leaf has not pulled yet.
Rest(n) == SubSeq(ItemsOf(n), node[n].pos + 1, node[n].hi - node[n].lo)

\* C13 as stated: consume_iter over a sequence equals consume called once per
\* item of the sequence, also for a folder that becomes full partway.
C13_ConsumeIterEquivalence_Original ==
    \A n \in FolderLeaves :
        LET p == AsProducer(node[n], node[n].seed)
        IN  SameFolder(ConsumeIter(p.self, ItemsOf(n), p.store),
                       ConsumeEach(p.self, ItemsOf(n), p.store))

\* C13 amended: consume_iter over a sequence equals consume called for one
\* item after the other, in order, up to and including the first item after
\* which the folder is full(): the same items downstream in the same order,
\* the same number of map_op invocations, the same state and the same
\* complete() result; with a folder that never becomes full this is consume
\* once per item.  A leaf folder ends where either of them puts it.
C13_ConsumeIterEquivalence ==
    \A n \in FolderLeaves :
        LET p == AsProducer(node[n], node[n].seed)
            whole == ConsumeIter(p.self, ItemsOf(n), p.store)
        IN  /\ SameFolder(whole, ConsumeLoop(p.self, ItemsOf(n), p.store))
            /\ limit = NoLimit =>
                SameFolder(whole, ConsumeEach(p.self, ItemsOf(n), p.store))
            /\ ~node[n].stopped =>
                SameFolder(ConsumeIter(node[n], Rest(n), store),
                           ConsumeLoop(node[n], Rest(n), store))
            /\ node[n].st = "done" =>
                /\ node[n].out = whole.folder.out
                /\ node[n].calls = whole.folder.calls
                /\ store[node[n].item] = whole.store[whole.folder.item]
                /\ node[n].res = MapWithFolder_complete(whole.folder)

\* A leaf folder with more than two items became full after the second and
\* completed.
C13_Witness ==
    \E n \in FolderLeaves :
        /\ node[n].st = "done"
        /\ node[n].stopped
        /\ node[n].calls = 2
        /\ node[n].hi - node[n].lo > 2
        /\ Len(ConsumeEach(AsProducer(node[n], node[n].seed).self, ItemsOf(n),
                           AsProducer(node[n], node[n].seed).store).folder.out) > 2

\* -------------------------------------------------------------------- C14
\* full() of the adapter's consumer or folder of branch n.
AdapterFull(n) ==
    IF node[n].st = "ready"
    THEN IF adapter = "MapWith" THEN MapWithConsumer_full(node[n])
                                ELSE MapInitConsumer_full(node[n])
    ELSE MapWithFolder_full(node[n])

\* C14: saturation pass-through.  On the consumer path, in every reachable
\* state and at every branch, full() of the adapter's consumer or folder is
\* full() of the downstream consumer or folder it wraps; a fold loop stops
\* exactly when it is true, and a saturated branch completes with the
\* downstream's result like any other, in a tree that completes as well.
C14_FullPassThrough ==
    path \in {"drive", "drive_unindexed"} =>
        \A n \in Nodes :
            /\ node[n].st \in {"ready", "leaf", "done"} =>
                AdapterFull(n) = Down_full(node[n].out)
            /\ node[n].st = "leaf" => node[n].stopped = AdapterFull(n)
            /\ (node[n].st = "done" /\ n \in TreeLeaves) =>
                /\ node[n].stopped = AdapterFull(n)
                /\ node[n].res = MapWithFolder_complete(node[n])
                /\ node[n].res = Down_complete(node[n].base, node[n].out)
            /\ (node[n].st = "leaf" /\ node[n].stopped) => ENABLED complete(n)
            /\ node[n].st # "panicked"

\* A consumer-path drive with two splits has finished; one leaf was full
\* after its second item with items left, another was never full.
C14_Witness ==
    /\ path \in {"drive", "drive_unindexed"}
    /\ RootDone
    /\ Cardinality(TreeLeaves) = 3
    /\ \E n, m \in TreeLeaves :
        /\ node[n].stopped /\ node[n].calls = 2 /\ node[n].hi - node[n].lo > 2
        /\ MapWithFolder_full(node[n])
        /\ ~node[m].stopped /\ node[m].calls = 1 /\ ~MapWithFolder_full(node[m])
        /\ \E i \in 1..Len(node[1].res) : node[1].res[i].out = node[n].out

\* -------------------------------------------------------------------- C15
\* The mapped items of leaf n: its items through map_op from the initial state.
MappedOf(n) == FreshRun(node[n].lo, node[n].hi - node[n].lo)

\* The downstream folder fed a sequence directly: consume, break when full().
RECURSIVE DownFold(_, _)
DownFold(out, items) ==
    IF items = <<>> THEN out
    ELSE LET o == Down_consume(out, Head(items))
         IN  IF Down_full(o) THEN o ELSE DownFold(o, Tail(items))

\* The downstream consumer cons driven directly, with the split tree below n,
\* over the mapped items of the leaves.
RECURSIVE DirectDrive(_, _)
DirectDrive(n, cons) ==
    IF 2 * n \in Nodes
    THEN LET s == IF path = "drive_unindexed"
                  THEN [left |-> Down_split_off_left(cons),
                        right |-> Down_after_split_off_left(cons),
                        reducer |-> Down_to_reducer(cons)]
                  ELSE Down_split_at(cons, node[n].index)
         IN  Down_reduce(DirectDrive(2 * n, s.left), DirectDrive(2 * n + 1, s.right))
    ELSE IF Down_full(<<>>) THEN Down_complete(cons, <<>>)
    ELSE Down_complete(cons, DownFold(<<>>, MappedOf(n)))

\* C15: adapter transparency.  Whatever the split tree, every branch of a
\* MapWith or MapInit drive returns what the downstream consumer in its place
\* returns when it is driven directly, with the same tree, over the leaves'
\* mapped items; a split passes the downstream's reducer on, and the whole
\* drive returns the result of the downstream consumer it was given.
C15_AdapterTransparency ==
    /\ \A n \in Nodes :
        /\ node[n].st = "done" => node[n].res = DirectDrive(n, node[n].base)
        /\ 2 * n \in Nodes => node[n].reducer = Down_to_reducer(node[n].base)
    /\ RootDone => node[1].res = DirectDrive(1, 1)

\* A consumer-path drive with two splits has returned the results of three
\* leaves, two of which mapped more than one item.
C15_Witness ==
    /\ path \in {"drive", "drive_unindexed"}
    /\ RootDone
    /\ Len(node[1].res) = 3
    /\ Cardinality({n \in TreeLeaves : node[n].calls > 1}) = 2
    /\ node[1].res = DirectDrive(1, 1)

\* -------------------------------------------------------------------- C16
\* Every producer or consumer not yet converted holds the initial value, and
\* every leaf started from it; map_op has run in leaves only.
UnconvertedInitial ==
    \A n \in Nodes :
        /\ (node[n].st = "ready" /\ node[n].item # 0) => store[node[n].item] = InitVal
        /\ node[n].st \in {"ready", "split"} => node[n].calls = 0
        /\ Converted(n) => node[n].seed = InitVal
        /\ node[n].calls > 0 => Converted(n) /\ n \in TreeLeaves

\* A step that runs map_op runs it in a leaf, on the leaf's own instance and
\* on no other; a branch once converted is never split.
MutationInLeaves ==
    /\ \A i \in DOMAIN store :
        store'[i] # store[i] =>
            \E n \in Nodes : /\ node[n].st = "leaf" /\ node[n].item = i
                              /\ node'[n].calls = node[n].calls + 1
    /\ \A n \in Nodes :
        /\ node'[n].calls # node[n].calls => node[n].st = "leaf"
        /\ Converted(n) => 2 * n \notin DOMAIN node' /\ node'[n].st \in {"leaf", "done"}

\* C16: map_op is never applied to the state of an unsplit MapWithProducer or
\* MapWithConsumer.  In every reachable state every branch not yet converted
\* holds the value given at construction, every leaf started from it, and
\* mutation happens only in a converted branch, which is never split again.
C16_UnsplitStateInitial ==
    [](adapter = "MapWith" => UnconvertedInitial) /\ [][adapter = "MapWith" => MutationInLeaves]_vars

\* A MapWith leaf has mapped two items and its state has moved on, while its
\* sibling is split into two producers that still hold the initial value.
C16_Witness ==
    /\ adapter = "MapWith"
    /\ path = "with_producer"
    /\ 6 \in Nodes
    /\ node[2].st = "leaf" /\ node[2].calls = 2 /\ store[node[2].item] # InitVal
    /\ node[6].st = "ready" /\ store[node[6].item] = InitVal
    /\ node[7].st = "ready" /\ store[node[7].item] = InitVal

\* -------------------------------------------------------------------- C17
\* Branch n as a leaf of the consumer path, from the initial state: the bridge
\* asks the adapter's consumer whether it is full(), converts it with
\* into_folder() in either case, and folds the base producer into the folder
\* unless it was full.
ConsumerPathLeaf(n) ==
    LET p == AsProducer(node[n], InitVal)
        c == IF adapter = "MapWith" THEN MapWithConsumer_into_folder(p.self, p.store, 0)
                                    ELSE MapInitConsumer_into_folder(p.self, p.store, 0)
        f == [p.self EXCEPT !.item = c.folder.item]
        full == IF adapter = "MapWith" THEN MapWithConsumer_full(p.self)
                                       ELSE MapInitConsumer_full(p.self)
        r == IF full THEN [folder |-> f, store |-> c.store]
                     ELSE ConsumeLoop(f, ItemsOf(n), c.store)
    IN  [out |-> r.folder.out, inits |-> c.inits, res |-> MapWithFolder_complete(r.folder)]

\* Branch n as a leaf of the producer path, from the initial state: the bridge
\* asks the downstream consumer whether it is full() and then drops the
\* adapter's producer, or else calls fold_with on it.
ProducerPathLeaf(n) ==
    LET p == AsProducer(node[n], InitVal)
        c == IF adapter = "MapWith" THEN MapWithProducer_fold_with(p.self, p.store, 0)
                                    ELSE MapInitProducer_fold_with(p.self, p.store, 0)
        f == [p.self EXCEPT !.item = c.folder.item]
        r == ConsumeLoop(f, ItemsOf(n), c.store)
    IN  IF Down_full(p.self.out)
        THEN [out |-> <<>>, inits |-> 0, res |-> Down_complete(p.self.base, <<>>)]
        ELSE [out |-> r.folder.out, inits |-> c.inits,
              res |-> Down_complete(r.folder.base, r.folder.out)]

\* The split tree below n executed on one of the two paths.
RECURSIVE PathRun(_, _)
PathRun(n, producer) ==
    IF 2 * n \in Nodes
    THEN LET l == PathRun(2 * n, producer)
             r == PathRun(2 * n + 1, producer)
         IN  [res |-> Down_reduce(l.res, r.res), inits |-> l.inits + r.inits]
    ELSE LET leaf == IF producer THEN ProducerPathLeaf(n) ELSE ConsumerPathLeaf(n)
         IN  [res |-> leaf.res, inits |-> leaf.inits]

\* The drive that was made is the execution of its tree on its path.
RunIsPathRun ==
    RootDone =>
        LET run == PathRun(1, path = "with_producer")
        IN  /\ node[1].res = run.res
            /\ adapter = "MapInit" => initCalls = run.inits
            /\ \A n \in TreeLeaves :
                node[n].out = IF path = "with_producer" THEN ProducerPathLeaf(n).out
                                                        ELSE ConsumerPathLeaf(n).out

SameItemsAndResult ==
    /\ \A n \in TreeLeaves : ConsumerPathLeaf(n).out = ProducerPathLeaf(n).out
    /\ PathRun(1, FALSE).res = PathRun(1, TRUE).res

\* C17 as stated: for the same split tree the consumer path and the producer
\* path yield the same mapped items in every leaf, the same final result and,
\* for MapInit, the same number of initializer invocations.
C17_PathsAgree_Original ==
    1 \in Nodes =>
        /\ RunIsPathRun
        /\ SameItemsAndResult
        /\ adapter = "MapInit" => PathRun(1, FALSE).inits = PathRun(1, TRUE).inits

\* C17 amended: for the same split tree the two paths yield the same mapped
\* items in every leaf and the same final result; for MapInit they run the
\* initializer the same number of times, once per leaf, unless the downstream
\* consumer is full() before the branch starts: then the consumer path still
\* runs it once, in into_folder, and the producer path, which drops the
\* producer unconverted, does not run it.
C17_PathsAgree ==
    1 \in Nodes =>
        /\ RunIsPathRun
        /\ SameItemsAndResult
        /\ (adapter = "MapInit" /\ ~Down_full(<<>>)) =>
            /\ PathRun(1, FALSE).inits = PathRun(1, TRUE).inits
            /\ PathRun(1, TRUE).inits = Cardinality(TreeLeaves)
        /\ (adapter = "MapInit" /\ Down_full(<<>>)) =>
            /\ PathRun(1, FALSE).inits = Cardinality(TreeLeaves)
            /\ PathRun(1, TRUE).inits = 0

\* A MapInit drive through with_producer with two splits has finished: three
\* leaves ran the initializer, as the consumer path does for this tree, and
\* two of them mapped more than one item.
C17_Witness ==
    /\ adapter = "MapInit"
    /\ path = "with_producer"
    /\ RootDone
    /\ Cardinality(TreeLeaves) = 3
    /\ initCalls = 3
    /\ PathRun(1, FALSE).inits = 3
    /\ PathRun(1, FALSE).res = node[1].res
    /\ Cardinality({n \in TreeLeaves : node[n].calls > 1}) = 2

\* -------------------------------------------------------------------- C18
\* A leaf iterator has run map_op once for every item it obtained, from
\* either end, all on its one state, and has yielded what map_op returned.
IterCounts ==
    \A n \in Nodes : IsIter(n) =>
        /\ node[n].calls = node[n].pos + node[n].back
        /\ Len(node[n].out) = node[n].calls
        /\ store[node[n].item] = node[n].seed + SumFrom(node[n].lo, node[n].pos)
                                  + SumFrom(node[n].hi - node[n].back, node[n].back)
        /\ node[n].out # <<>> => node[n].out[Len(node[n].out)] = store[node[n].item]
        /\ node[n].last = "end" => Base_exhausted(node[n])

\* What one step does to a leaf iterator: a call that obtains an item takes
\* it from the end the call names and runs map_op on it once, on the state
\* as the calls before left it; any other call runs nothing.
IterStep ==
    \A n \in Nodes : (IsIter(n) /\ node'[n] # node[n]) =>
        LET a == node[n]
            b == node'[n]
            got == (b.pos + b.back) - (a.pos + a.back)
            front == map_op(store[a.item], input[a.lo + a.pos + 1])
            rear == map_op(store[a.item], input[a.hi - a.back])
        IN  /\ got \in {0, 1}
            /\ b.pos >= a.pos /\ b.back >= a.back
            /\ b.calls = a.calls + got
            /\ b.item = a.item
            /\ \A i \in DOMAIN store \ {a.item} : store'[i] = store[i]
            /\ Base_exhausted(a) => got = 0
            /\ got = 0 => store' = store /\ b.out = a.out
            /\ b.pos = a.pos + 1 =>
                store'[a.item] = front.item /\ b.out = Append(a.out, front.mapped)
            /\ b.back = a.back + 1 =>
                store'[a.item] = rear.item /\ b.out = Append(a.out, rear.mapped)
            /\ b.seen # a.seen =>
                /\ b.seen = <<"size_hint", Base_size_hint(a)>>
                /\ b = [a EXCEPT !.seen = b.seen]
            /\ b.last # a.last => b.last = IF got = 1 THEN "some" ELSE "end"

\* C18: MapWithIter pull order.  Every next() or next_back() that obtains a
\* base item runs map_op exactly once on the leaf's single state, in the
\* order of the calls and not of the indices; a call on an exhausted base
\* runs it not at all and leaves the state; size_hint is the base's and runs
\* nothing.
C18_IterPullOrder == []IterCounts /\ [][IterStep]_vars

\* An iterator over [1,2,3,4] was pulled from the back, the front and the
\* back again and yielded 4, 5, 8; its size_hint then said one item is left.
C18_Witness ==
    /\ IsIter(1)
    /\ Len(input) = 4
    /\ node[1].pos = 1 /\ node[1].back = 2
    /\ node[1].out = <<4, 5, 8>>
    /\ node[1].seen = <<"size_hint", 1>>

\* -------------------------------------------------------------------- C19
AdapterMinLen(n) == IF adapter = "MapWith" THEN MapWithProducer_min_len(node[n])
                                           ELSE MapInitProducer_min_len(node[n])
AdapterMaxLen(n) == IF adapter = "MapWith" THEN MapWithProducer_max_len(node[n])
                                           ELSE MapInitProducer_max_len(node[n])

\* The adapter's producer answers with the hints of the base it wraps, which
\* are those of the base the drive began with.
HintsOfBase ==
    \A n \in Nodes :
        /\ node[n].st = "ready" =>
            /\ AdapterMinLen(n) = Base_min_len(node[n])
            /\ AdapterMaxLen(n) = Base_max_len(node[n])
            /\ AdapterMinLen(n) = node[1].min_len
            /\ AdapterMaxLen(n) = node[1].max_len
        /\ (node[n].seen # <<>> /\ node[n].seen[1] = "min_len") =>
            node[n].seen[2] = Base_min_len(node[n])
        /\ (node[n].seen # <<>> /\ node[n].seen[1] = "max_len") =>
            node[n].seen[2] = Base_max_len(node[n])

\* A step that answers a query changes nothing but the answer seen.
QueryChangesNothing ==
    \A n \in Nodes :
        node'[n].seen # node[n].seen =>
            /\ node' = [node EXCEPT ![n].seen = node'[n].seen]
            /\ store' = store
            /\ initCalls' = initCalls /\ cloneCalls' = cloneCalls

\* C19: hint propagation.  At every node of the split tree min_len() and
\* max_len() of a MapWithProducer or MapInitProducer are those of the base
\* producer it wraps, and asking for them changes no state.
C19_HintPropagation == []HintsOfBase /\ [][QueryChangesNothing]_vars

\* A producer over a base with hints 2 and 3 was split; its left half was
\* asked for min_len and said 2, its right half for max_len and said 3.
C19_Witness ==
    /\ 3 \in Nodes
    /\ node[1].min_len = 2 /\ node[1].max_len = 3
    /\ node[2].st = "ready" /\ node[2].seen = <<"min_len", 2>>
    /\ node[3].st = "ready" /\ node[3].seen = <<"max_len", 3>>

TypeOK == path \in {"new", "drive", "drive_unindexed", "with_producer"}
====
